---- MODULE Spec2Model ----
(***************************************************************************)
(* Model of the automation harness in src/src/common/utils.ts:             *)
(*   - the Screenshot singleton (setCreateType, setDir, screenShot, save), *)
(*   - retry (the bounded poll with its capture/flush/teardown tail),      *)
(*   - the launch fixture (environment, editor start, settings, teardown), *)
(* and of a test case as src/src/createTypespec/createTypespec.test.ts     *)
(* runs it: setDir, try { launch, steps, closeVscode, compare } finally    *)
(* { save }.                                                               *)
(* Strings that the code takes apart (paths) are sequences of tokens: a    *)
(* separator, a digit, "_", ":" or a name without separators.  One caller  *)
(* task drives the operations; pc is its position, shot is the pending     *)
(* screenShot call it awaits.                                              *)
(***************************************************************************)
EXTENDS Integers, Sequences, FiniteSets, TLC

VARIABLES
  platform,      \* os.platform(): "win32" or "linux", fixed for the process
  createType,    \* Screenshot.createType
  currentDir,    \* Screenshot.currentDir, a token sequence ("" is << >>)
  fileList,      \* Screenshot.fileList: sequence of [fullPath, buffer, date]
  disk,          \* files on disk: set of [path, buffer], one per path
  host,          \* the editor process: "none", "live" or "closed"
  pc,            \* position of the caller task
  shot,          \* the pending screenShot call, or NoShot
  count,         \* retry's local count
  call,          \* the operation in progress or last completed, with its inputs
  result,        \* what the caller got back from the last completed operation
  log,           \* events of the operation in progress or last completed
  snap,          \* fileList, disk and host as they were when that operation began
  lastWrites,    \* the files that operation wrote, in write order
  nshots,        \* number of screen grabs taken so far (each image is distinct)
  dirShot,       \* value of nshots at the most recent setDir
  savesSinceDir, \* number of save() calls since the most recent setDir
  writeCount,    \* per image in the buffer: how many save() calls wrote it
  dropped,       \* the frames the most recent setDir discarded, while the buffer
                 \* has stayed empty since
  test,          \* the test case in progress: where its body stands, how it ended
  env,           \* process.env of the test process: variable name -> value
  childEnv,      \* the environment the most recent launch gave the editor
  caseRun        \* the case name and the instant of the most recent setDir

vars == <<platform, createType, currentDir, fileList, disk, host, pc, shot, count,
          call, result, log, snap, lastWrites, nshots, dirShot, savesSinceDir,
          writeCount, dropped, test, env, childEnv,
          caseRun>>

----------------------------------------------------------------------------
(* Bounds of the model *)

MaxShots == 2
MaxSaves == 2
MaxCount == 2
TimeStep == 500
LongGap == 20
OrderShots == 11

(* Program constants *)

SettleSeconds == 3
DefaultGap == 2
MsPerSecond == 1000
SecondsPerDay == 86400

Platforms == {"win32", "linux"}
CreateTypes == {"create", "emit"}
CaseNames == {"caseA", "caseB"}
FileNames == {"shot.png"}
ErrorFile == "error.png"
Messages == {"msgA", "msgB"}
Gaps == {DefaultGap, LongGap}
Counts == (0 - 1) .. MaxCount
\* instants the wall clock can show, in milliseconds (+new Date())
Times == {0, TimeStep}

----------------------------------------------------------------------------
(* Token sequences *)

Last(s) == s[Len(s)]
Front(s) == SubSeq(s, 1, Len(s) - 1)

\* String.prototype.split(sep): k separators give k+1 pieces
RECURSIVE Split(_, _)
Split(s, sep) ==
  IF s = << >> THEN << << >> >>
  ELSE LET rest == Split(Tail(s), sep)
       IN  IF Head(s) = sep
           THEN << << >> >> \o rest
           ELSE << <<Head(s)>> \o Head(rest) >> \o Tail(rest)

\* String.prototype.lastIndexOf(c), 1-based; 0 when c does not occur (JS: -1)
LastIndexOf(s, c) ==
  IF \E i \in DOMAIN s : s[i] = c
  THEN CHOOSE i \in DOMAIN s : s[i] = c /\ \A j \in DOMAIN s : s[j] = c => j <= i
  ELSE 0

\* `${i}`: the decimal digits of a natural number
RECURSIVE Digits(_)
Digits(i) == IF i < 10 THEN <<ToString(i)>> ELSE Digits(i \div 10) \o <<ToString(i % 10)>>

TwoDigits(n) == <<ToString(n \div 10), ToString(n % 10)>>

----------------------------------------------------------------------------
(* node:path *)

Sep(p) == IF p = "win32" THEN "\\" ELSE "/"
IsSep(p, c) == IF p = "win32" THEN c \in {"/", "\\"} ELSE c = "/"

\* path.normalize, as far as these paths need it: every separator becomes the
\* platform's, runs of separators collapse to one
RECURSIVE Normalize(_, _)
Normalize(p, s) ==
  IF s = << >> THEN << >>
  ELSE IF IsSep(p, Head(s))
       THEN IF Len(s) > 1 /\ IsSep(p, s[2])
            THEN Normalize(p, Tail(s))
            ELSE <<Sep(p)>> \o Normalize(p, Tail(s))
       ELSE <<Head(s)>> \o Normalize(p, Tail(s))

RECURSIVE JoinRaw(_, _)
JoinRaw(p, segs) ==
  IF segs = << >> THEN << >>
  ELSE IF Head(segs) = << >> THEN JoinRaw(p, Tail(segs))
       ELSE LET rest == JoinRaw(p, Tail(segs))
            IN  IF rest = << >> THEN Head(segs) ELSE Head(segs) \o <<Sep(p)>> \o rest

\* path.join(...segs): empty segments are skipped, the rest joined and normalized
PathJoin(p, segs) == Normalize(p, JoinRaw(p, segs))

----------------------------------------------------------------------------
(* class Screenshot: paths *)

TypeMenu(ct) ==
  CASE ct = "create" -> "CreateTypeSpecProject"
    [] ct = "emit" -> "EmitFromTypeSpec"
    [] ct = "import" -> "ImportTypeSpecFromOpenAPI3"
    [] ct = "preview" -> "PreviewAPIDocument"

\* process.env.BUILD_ARTIFACT_STAGING_DIRECTORY || path.resolve(__dirname, "../..")
RootDir(p) == IF p = "win32" THEN <<"C:", "\\", "root">> ELSE <<"/", "root">>

PlatformDir(p) == IF p = "win32" THEN <<"/", "images-windows">> ELSE <<"/", "images-linux">>

\* moment().format("_HH_mm_ss") of the instant t (milliseconds)
FormatHHmmss(t) ==
  LET s == (t \div MsPerSecond) % SecondsPerDay
  IN  <<"_">> \o TwoDigits(s \div 3600) \o <<"_">> \o TwoDigits((s \div 60) % 60)
        \o <<"_">> \o TwoDigits(s % 60)

\* the value setDir gives currentDir
CaseDir(dir, t) == <<dir>> \o FormatHHmmss(t)

\* fullPath as screenShot computes it
FullPath(p, ct, cur, fileName) ==
  PathJoin(p, <<RootDir(p), PlatformDir(p), <<TypeMenu(ct)>>, cur, <<fileName>>>>)

\* the frame screenShot pushes
NewFrame(p, ct, cur, fileName, img, t) ==
  [fullPath |-> FullPath(p, ct, cur, fileName), buffer |-> img, date |-> t]

----------------------------------------------------------------------------
(* class Screenshot: save *)

\* deliberately wrong variant: equal dates: the later element goes in front
RECURSIVE InsertByDateUnstable(_, _)
InsertByDateUnstable(s, x) ==
  IF s = << >> THEN <<x>>
  ELSE IF Last(s).date - x.date < 0
       THEN Append(s, x)
       ELSE Append(InsertByDateUnstable(Front(s), x), Last(s))

\* deliberately wrong variant: the comparator the other way round, newest first
RECURSIVE InsertByDateDescending(_, _)
InsertByDateDescending(s, x) ==
  IF s = << >> THEN <<x>>
  ELSE IF x.date - Last(s).date <= 0
       THEN Append(s, x)
       ELSE Append(InsertByDateDescending(Front(s), x), Last(s))

\* insert x behind every element whose date is not larger (stable)
RECURSIVE InsertByDate(_, _)
InsertByDate(s, x) ==
  IF s = << >> THEN <<x>>
  ELSE IF Last(s).date - x.date <= 0
       THEN Append(s, x)
       ELSE Append(InsertByDate(Front(s), x), Last(s))

\* deliberately wrong variant: the list is written as it stands
SortByDateNone(s) == s

\* fileList.sort((a, b) => a.date - b.date); Array.prototype.sort is stable
RECURSIVE SortByDate(_)
SortByDate(s) == IF s = << >> THEN << >> ELSE InsertByDate(SortByDate(Front(s)), Last(s))

\* `${i}_${name}`
OrdinalPrefix(i) == Digits(i) \o <<"_">>

\* deliberately wrong variant: the ordinal goes in front of the whole item
PrefixLastAtStart(p, item, i) == OrdinalPrefix(i) \o item

\* the last split item with the ordinal put in front of the file name
PrefixLast(p, item, i) ==
  IF p = "win32"
  THEN OrdinalPrefix(i) \o item
  ELSE LET lastslashIdx == LastIndexOf(item, "/")
       IN  IF lastslashIdx # 0
           THEN SubSeq(item, 1, lastslashIdx) \o OrdinalPrefix(i)
                  \o SubSeq(item, lastslashIdx + 1, Len(item))
           ELSE OrdinalPrefix(i) \o item

\* the path save writes the frame with 0-based index i to
WritePath(p, fullPath, i) ==
  LET fullPathItem == Split(fullPath, "\\")
      n == Len(fullPathItem)
  IN  PathJoin(p, [fullPathItem EXCEPT ![n] = PrefixLast(p, fullPathItem[n], i)])

\* deliberately wrong variant: the loop stops one frame short
SaveWritesSkipsLast(p, sorted) ==
  [k \in 1 .. (Len(sorted) - 1) |->
     [path |-> WritePath(p, sorted[k].fullPath, k - 1), buffer |-> sorted[k].buffer]]

\* the writes of save's loop over the sorted list, in order
SaveWrites(p, sorted) ==
  [k \in 1 .. Len(sorted) |->
     [path |-> WritePath(p, sorted[k].fullPath, k - 1), buffer |-> sorted[k].buffer]]

\* fs.writeFileSync(path, buffer): creates or replaces the file
WriteFile(d, w) == {f \in d : f.path # w.path} \cup {w}

RECURSIVE WriteAll(_, _)
WriteAll(d, ws) == IF ws = << >> THEN d ELSE WriteAll(WriteFile(d, Head(ws)), Tail(ws))

\* deliberately wrong variant: save() empties the list once it has written it
BufferAfterSaveCleared(list) == << >>

\* fileList after save()
BufferAfterSave(list) == SortByDate(list)

\* save(): early return on an empty list, else sort in place and write every frame
SaveEffect ==
  LET sorted == BufferAfterSave(fileList)
      ws == IF fileList = << >> THEN << >> ELSE SaveWrites(platform, SortByDate(fileList))
  IN  /\ fileList' = IF fileList = << >> THEN fileList ELSE sorted
      /\ disk' = WriteAll(disk, ws)
      /\ lastWrites' = ws
      /\ savesSinceDir' = savesSinceDir + 1
      /\ writeCount' = [id \in DOMAIN writeCount |->
                          IF \E k \in DOMAIN ws : ws[k].buffer = id
                          THEN writeCount[id] + 1 ELSE writeCount[id]]

----------------------------------------------------------------------------
(* process.env *)

EnvNames == {"PATH", "HOME", "VITEST_VSCODE_LOG", "VITEST_VSCODE_E2E_LOG_FILE"}

\* the values a variable can have been given by the parent of the test process
EnvValues(n) ==
  CASE n = "PATH" -> {<<"dirA">>, <<"dirA", ":", "dirB">>, <<"dirA", ";", "dirB">>}
    [] n = "HOME" -> {<<"home">>}
    [] n = "VITEST_VSCODE_LOG" -> {<<"verbose">>, <<"info">>}
    [] n = "VITEST_VSCODE_E2E_LOG_FILE" -> {<<"old.txt">>}

\* every environment over EnvNames: each variable is unset or has one of its values
Envs ==
  UNION {{e \in [S -> UNION {EnvValues(n) : n \in EnvNames}] : \A n \in S : e[n] \in EnvValues(n)}
           : S \in SUBSET EnvNames}

\* an environment with a search path and none of the variables launch sets
UsualEnv == [n \in {"PATH", "HOME"} |-> IF n = "PATH" THEN <<"dirA">> ELSE <<"home">>]

----------------------------------------------------------------------------
(* State of the caller task *)

NoShot == [stage |-> "none", fileName |-> "", dir |-> << >>]
NoCall == [op |-> "none", n |-> 0, msg |-> "", gap |-> 0, file |-> ""]
NoResult == [kind |-> "none", msg |-> "", value |-> ""]
Ok == [kind |-> "ok", msg |-> "", value |-> ""]
Error(kind, msg) == [kind |-> kind, msg |-> msg, value |-> ""]
NoSnap == [fileList |-> << >>, disk |-> {}, host |-> "none"]
Snap == [fileList |-> fileList, disk |-> disk, host |-> host]
Event(e, n) == [e |-> e, n |-> n]

\* messages of the errors the automation driver and a predicate raise
DriverError == "driver error"
PredicateError == "predicate error"

\* setDir has not been called
NoRun == [name |-> "", at |-> 0]

\* no test case is running
NoTest == [phase |-> "none", outcome |-> "none", handle |-> FALSE]

\* the state after the modules are loaded, with e as process.env
InitState(e) ==
  /\ platform \in Platforms
  /\ createType = "create"
  /\ currentDir = << >>
  /\ fileList = << >>
  /\ disk = {}
  /\ host = "none"
  /\ pc = "idle"
  /\ shot = NoShot
  /\ count = 0
  /\ call = NoCall
  /\ result = NoResult
  /\ log = << >>
  /\ snap = NoSnap
  /\ lastWrites = << >>
  /\ nshots = 0
  /\ dirShot = 0
  /\ savesSinceDir = 0
  /\ writeCount = << >>
  /\ dropped = << >>
  /\ test = NoTest
  /\ env = e
  /\ childEnv = << >>
  /\ caseRun = NoRun

Init == InitState(UsualEnv)

\* the caller starts operation c; what the previous operation left is forgotten
Begin(c) ==
  /\ pc = "idle"
  /\ call' = c
  /\ log' = << >>
  /\ result' = NoResult

----------------------------------------------------------------------------
(* class Screenshot: operations *)

\* setCreateType(ct), called from beforeAll before any case runs
SetCreateType(ct) ==
  /\ Begin([NoCall EXCEPT !.op = "setCreateType"])
  /\ call.op = "none"
  /\ createType' = ct
  /\ snap' = NoSnap
  /\ lastWrites' = << >>
  /\ UNCHANGED <<platform, currentDir, fileList, disk, host, pc, shot, count, nshots,
                 dirShot, savesSinceDir, writeCount, dropped, test, env, childEnv,
                 caseRun>>

\* deliberately wrong variant: setDir keeps the buffered frames
BufferAfterSetDirKeeps(list) == list

\* fileList after setDir
BufferAfterSetDir(list) == << >>

\* the body of setDir(dir), run at the instant t
SetDirEffect(dir, t) ==
  /\ currentDir' = CaseDir(dir, t)
  /\ caseRun' = [name |-> dir, at |-> t]
  /\ fileList' = BufferAfterSetDir(fileList)
  /\ dropped' = fileList
  /\ writeCount' = [id \in DOMAIN writeCount |-> 0]
  /\ dirShot' = nshots
  /\ savesSinceDir' = 0

\* setDir(dir) at the instant t (the caller says where this leaves its test)
SetDir(dir, t) ==
  /\ Begin([NoCall EXCEPT !.op = "setDir"])
  /\ SetDirEffect(dir, t)
  /\ snap' = NoSnap
  /\ lastWrites' = << >>
  /\ UNCHANGED <<platform, createType, disk, host, pc, shot, count, nshots, env,
                 childEnv>>

\* save() called by the caller (the caller says where this leaves its test)
Save ==
  /\ Begin([NoCall EXCEPT !.op = "save"])
  /\ SaveEffect
  /\ snap' = Snap
  /\ UNCHANGED <<platform, createType, currentDir, host, pc, shot, count, nshots,
                 dirShot, dropped, env, childEnv, caseRun>>

\* the caller calls screenShot(fileName) and awaits it
ShotCall(f) ==
  /\ Begin([NoCall EXCEPT !.op = "screenShot", !.file = f])
  /\ pc' = "await_shot"
  /\ shot' = [stage |-> "settle", fileName |-> f, dir |-> currentDir]
  /\ snap' = Snap
  /\ lastWrites' = << >>
  /\ UNCHANGED <<platform, createType, currentDir, fileList, disk, host, count,
                 nshots, dirShot, savesSinceDir, writeCount, dropped, test, env,
                 childEnv, caseRun>>

\* await sleep(3)
ShotSettle ==
  /\ shot.stage = "settle"
  /\ shot' = [shot EXCEPT !.stage = "grab"]
  /\ log' = Append(log, Event("settle", SettleSeconds))
  /\ UNCHANGED <<platform, createType, currentDir, fileList, disk, host, pc, count,
                 call, result, snap, lastWrites, nshots, dirShot, savesSinceDir,
                 writeCount, dropped, test, env, childEnv, caseRun>>

\* deliberately wrong variant: screenShot writes the image as soon as it has it
DiskAfterPushWrites(d, frame) ==
  WriteFile(d, [path |-> frame.fullPath, buffer |-> frame.buffer])

\* the disk after a frame was pushed
DiskAfterPush(d, frame) == d

\* deliberately wrong variant: retry goes from the capture straight to the teardown
AfterShotSkipsSave(at) == IF at = "retry_await_shot" THEN "retry_close" ELSE "idle"

\* the caller's position once the screenShot it awaits has resolved
AfterShot(at) == IF at = "retry_await_shot" THEN "retry_save" ELSE "idle"

\* deliberately wrong variant: the path is built from currentDir as it was at the call
DirForPathAtCall(atCall, atPush) == atCall

\* the currentDir that goes into fullPath: read after both awaits, in the same
\* synchronous stretch as the push
DirForPath(atCall, atPush) == atPush

\* screenshot() resolves; the path is computed and the frame pushed, dated t
ShotPush(t) ==
  /\ shot.stage = "grab"
  /\ LET frame == NewFrame(platform, createType, DirForPath(shot.dir, currentDir),
                          shot.fileName, nshots + 1, t)
     IN  /\ fileList' = Append(fileList, frame)
         /\ disk' = DiskAfterPush(disk, frame)
  /\ nshots' = nshots + 1
  /\ writeCount' = Append(writeCount, 0)
  /\ dropped' = << >>
  /\ shot' = NoShot
  /\ log' = Append(log, Event("capture", nshots + 1))
  /\ pc' = AfterShot(pc)
  /\ result' = IF AfterShot(pc) = "idle" THEN Ok ELSE result
  /\ UNCHANGED <<platform, createType, currentDir, host, count, call, snap,
                 lastWrites, dirShot, savesSinceDir, test, env, childEnv, caseRun>>

\* setDir(dir) called by another task while the caller's screenShot is
\* suspended in its settle delay or in the screen grab
SetDirWhileCapturing(dir, t) ==
  /\ shot.stage \in {"settle", "grab"}
  /\ SetDirEffect(dir, t)
  /\ UNCHANGED <<platform, createType, disk, host, pc, shot, count, call, result,
                 log, snap, lastWrites, nshots, test, env, childEnv>>

----------------------------------------------------------------------------
(* retry *)

\* closeVscode(): the editor process of the current handle is closed
CloseVscode(h) == IF h = "live" THEN "closed" ELSE h

\* deliberately wrong variant: one attempt too few; one attempt even when count is 0
LoopTestOffByOne(c) == c > 1
LoopTestAtLeastOnce(c) == c >= 0

\* the loop condition of retry
LoopTest(c) == c > 0

\* where retry goes when it evaluates its loop condition with count c:
\* into the loop body (sleep), or out of the loop into screenShot("error.png")
AfterTest(c) == IF LoopTest(c) THEN "retry_sleep" ELSE "retry_await_shot"
ShotAfterTest(c) ==
  IF LoopTest(c) THEN NoShot
  ELSE [stage |-> "settle", fileName |-> ErrorFile, dir |-> currentDir]

\* the caller calls retry(n, fn, msg, gap) and awaits it; fn inspects the page
\* of the running editor
RetryCall(n, msg, gap) ==
  /\ Begin([NoCall EXCEPT !.op = "retry", !.n = n, !.msg = msg, !.gap = gap])
  /\ host = "live"
  /\ count' = n
  /\ pc' = AfterTest(n)
  /\ shot' = ShotAfterTest(n)
  /\ snap' = Snap
  /\ lastWrites' = << >>
  /\ UNCHANGED <<platform, createType, currentDir, fileList, disk, host, nshots,
                 dirShot, savesSinceDir, writeCount, dropped, test, env, childEnv,
                 caseRun>>

\* await sleep(gap)
RetrySleep ==
  /\ pc = "retry_sleep"
  /\ pc' = "retry_fn"
  /\ log' = Append(log, Event("wait", call.gap))
  /\ UNCHANGED <<platform, createType, currentDir, fileList, disk, host, shot, count,
                 call, result, snap, lastWrites, nshots, dirShot, savesSinceDir,
                 writeCount, dropped, test, env, childEnv, caseRun>>

\* deliberately wrong variant: retry tears the editor down on success too
RetryFnTrueTeardown ==
  /\ pc = "retry_fn"
  /\ pc' = "idle"
  /\ host' = CloseVscode(host)
  /\ log' = Append(log, Event("fn_true", 0))
  /\ result' = Ok
  /\ UNCHANGED <<platform, createType, currentDir, fileList, disk, shot, count, call,
                 snap, lastWrites, nshots, dirShot, savesSinceDir, writeCount,
                 dropped, test, env, childEnv, caseRun>>

\* await fn() resolves true: retry returns
RetryFnTrue ==
  /\ pc = "retry_fn"
  /\ pc' = "idle"
  /\ log' = Append(log, Event("fn_true", 0))
  /\ result' = Ok
  /\ UNCHANGED <<platform, createType, currentDir, fileList, disk, host, shot, count,
                 call, snap, lastWrites, nshots, dirShot, savesSinceDir, writeCount,
                 dropped, test, env, childEnv, caseRun>>

\* await fn() resolves false: count-- and the loop condition is evaluated again
RetryFnFalse ==
  /\ pc = "retry_fn"
  /\ count' = count - 1
  /\ pc' = AfterTest(count - 1)
  /\ shot' = ShotAfterTest(count - 1)
  /\ log' = Append(log, Event("fn_false", 0))
  /\ UNCHANGED <<platform, createType, currentDir, fileList, disk, host, call,
                 result, snap, lastWrites, nshots, dirShot, savesSinceDir,
                 writeCount, dropped, test, env, childEnv, caseRun>>

\* deliberately wrong variant: retry swallows the error and polls again
AfterThrowPollsAgain(at) == "retry_sleep"

\* what retry does with an error thrown by fn: it has no try/catch, the error
\* leaves retry at once
AfterThrow(at) == "idle"

\* await fn() rejects
RetryFnThrow ==
  /\ pc = "retry_fn"
  /\ pc' = AfterThrow(pc)
  /\ log' = Append(log, Event("fn_throw", 0))
  /\ result' = IF AfterThrow(pc) = "idle" THEN Error("PredicateFault", PredicateError)
               ELSE result
  /\ UNCHANGED <<platform, createType, currentDir, fileList, disk, host, shot, count,
                 call, snap, lastWrites, nshots, dirShot, savesSinceDir, writeCount,
                 dropped, test, env, childEnv, caseRun>>

\* screenShot.save() after the error.png capture has resolved
RetrySave ==
  /\ pc = "retry_save"
  /\ pc' = "retry_close"
  /\ SaveEffect
  /\ log' = Append(log, Event("flush", Len(lastWrites')))
  /\ UNCHANGED <<platform, createType, currentDir, host, shot, count, call, result,
                 snap, nshots, dirShot, dropped, test, env, childEnv, caseRun>>

\* await closeVscode()
RetryClose ==
  /\ pc = "retry_close"
  /\ pc' = "retry_throw"
  /\ host' = CloseVscode(host)
  /\ log' = Append(log, Event("close", 0))
  /\ UNCHANGED <<platform, createType, currentDir, fileList, disk, shot, count, call,
                 result, snap, lastWrites, nshots, dirShot, savesSinceDir,
                 writeCount, dropped, test, env, childEnv, caseRun>>

\* the message of the error retry throws
ThrownMessage(errMessage) == errMessage

\* throw new Error(errMessage)
RetryThrow ==
  /\ pc = "retry_throw"
  /\ pc' = "idle"
  /\ result' = Error("PollExhausted", ThrownMessage(call.msg))
  /\ log' = Append(log, Event("raise", 0))
  /\ UNCHANGED <<platform, createType, currentDir, fileList, disk, host, shot, count,
                 call, snap, lastWrites, nshots, dirShot, savesSinceDir, writeCount,
                 dropped, test, env, childEnv, caseRun>>

----------------------------------------------------------------------------
(* the launch fixture *)

\* path.delimiter
Delimiter(p) == IF p = "win32" THEN ";" ELSE ":"

\* path.join(executablePath, "../bin") and the logPath fixture, as single tokens
CodePath == "codePath"
LogPath == "logPath"

\* `${process.env.PATH}`: an undefined value is rendered as "undefined"
Interpolate(e, n) == IF n \in DOMAIN e THEN e[n] ELSE <<"undefined">>

\* envOverrides = { PATH: `${codePath}${path.delimiter}${process.env.PATH}` }
EnvOverrides(p, e) == [n \in {"PATH"} |-> <<CodePath, Delimiter(p)>> \o Interpolate(e, "PATH")]

\* the log variables launch sets
LogVars == [n \in {"VITEST_VSCODE_E2E_LOG_FILE", "VITEST_VSCODE_LOG"} |->
              IF n = "VITEST_VSCODE_LOG" THEN <<"verbose">> ELSE <<LogPath>>]

\* { ...a, ...b }: b's value wins for a name both have
Spread(a, b) == [n \in DOMAIN a \cup DOMAIN b |-> IF n \in DOMAIN b THEN b[n] ELSE a[n]]

\* deliberately wrong variant: launch passes only what it sets itself
ChildEnvOverridesOnly(p, e) == Spread(EnvOverrides(p, e), LogVars)

\* the env option of _electron.launch
ChildEnv(p, e) == Spread(Spread(e, EnvOverrides(p, e)), LogVars)

\* the caller calls launch(options); mkdtemp gives a fresh temporary root
LaunchCall ==
  /\ Begin([NoCall EXCEPT !.op = "launch"])
  /\ pc' = "launch_spawn"
  /\ snap' = Snap
  /\ lastWrites' = << >>
  /\ UNCHANGED <<platform, createType, currentDir, fileList, disk, host, shot, count,
                 nshots, dirShot, savesSinceDir, writeCount, dropped, test, env,
                 childEnv, caseRun>>

\* await _electron.launch(...) resolves: the editor runs on the fresh root
LaunchSpawn ==
  /\ pc = "launch_spawn"
  /\ pc' = "launch_window"
  /\ host' = "live"
  /\ childEnv' = ChildEnv(platform, env)
  /\ log' = Append(log, Event("spawn", 0))
  /\ UNCHANGED <<platform, createType, currentDir, fileList, disk, shot, count, call,
                 result, snap, lastWrites, nshots, dirShot, savesSinceDir,
                 writeCount, dropped, test, env, caseRun>>

\* await _electron.launch(...) rejects: the error leaves launch
LaunchSpawnFail ==
  /\ pc = "launch_spawn"
  /\ pc' = "idle"
  /\ result' = Error("LaunchFailure", DriverError)
  /\ UNCHANGED <<platform, createType, currentDir, fileList, disk, host, shot, count,
                 call, log, snap, lastWrites, nshots, dirShot, savesSinceDir,
                 writeCount, dropped, test, env, childEnv, caseRun>>

\* await app.firstWindow() resolves: settings.json is written and the handle
\* {page, extensionDir} returned
LaunchWindow ==
  /\ pc = "launch_window"
  /\ pc' = "idle"
  /\ log' = Append(log, Event("settings", 0))
  /\ result' = [Ok EXCEPT !.value = "handle"]
  /\ UNCHANGED <<platform, createType, currentDir, fileList, disk, host, shot, count,
                 call, snap, lastWrites, nshots, dirShot, savesSinceDir, writeCount,
                 dropped, test, env, childEnv, caseRun>>

\* what launch gives the caller when app.firstWindow() rejects
OnWindowFail == Error("LaunchFailure", DriverError)

\* await app.firstWindow() rejects: the error leaves launch
LaunchWindowFail ==
  /\ pc = "launch_window"
  /\ pc' = "idle"
  /\ result' = OnWindowFail
  /\ UNCHANGED <<platform, createType, currentDir, fileList, disk, host, shot, count,
                 call, log, snap, lastWrites, nshots, dirShot, savesSinceDir,
                 writeCount, dropped, test, env, childEnv, caseRun>>

----------------------------------------------------------------------------
(* a test case: test.only(caseName, async ({ launch }) => { ... }) *)

\* the awaited operation has rejected
Failed == pc = "idle" /\ result.kind \notin {"none", "ok"}

\* the test function starts: screenShot.setDir(caseName), then the try block
TestBegin(dir, t) ==
  /\ test.phase \in {"none", "torn"}
  /\ SetDir(dir, t)
  /\ test' = [phase |-> "try", outcome |-> "none", handle |-> FALSE]

\* await launch({ workspacePath }), the first statement of the try block
TestLaunch ==
  /\ test.phase = "try"
  /\ call.op = "setDir"
  /\ LaunchCall

\* launch has resolved: the body holds { page, extensionDir }
TestLaunched ==
  /\ test.phase = "try"
  /\ pc = "idle"
  /\ call.op = "launch"
  /\ result.kind = "ok"
  /\ test' = [test EXCEPT !.phase = "steps", !.handle = TRUE]
  /\ UNCHANGED <<platform, createType, currentDir, fileList, disk, host, pc, shot,
                 count, call, result, log, snap, lastWrites, nshots, dirShot,
                 savesSinceDir, writeCount, dropped, env, childEnv, caseRun>>

\* deliberately wrong variant: an error leaves the test without the finally block
OnBodyErrorNoFinally(phase) == "ended"

\* where an error thrown inside the try block takes the test
OnBodyError(phase) == "finally"

\* the awaited launch, retry or screenShot has rejected: the error leaves the
\* try block
TestThrown ==
  /\ test.phase \in {"try", "steps"}
  /\ Failed
  /\ test' = [test EXCEPT !.phase = OnBodyError(test.phase), !.outcome = result.kind]
  /\ UNCHANGED <<platform, createType, currentDir, fileList, disk, host, pc, shot,
                 count, call, result, log, snap, lastWrites, nshots, dirShot,
                 savesSinceDir, writeCount, dropped, env, childEnv, caseRun>>

\* a step of the body takes a screenshot
TestShot(f) ==
  /\ test.phase = "steps"
  /\ ~Failed
  /\ ShotCall(f)

\* a step of the body polls with retry
TestRetry(n, msg, gap) ==
  /\ test.phase = "steps"
  /\ ~Failed
  /\ RetryCall(n, msg, gap)

\* a step of the body throws on its own (a page action times out, a file
\* operation fails)
TestStepThrows ==
  /\ test.phase = "steps"
  /\ pc = "idle"
  /\ ~Failed
  /\ test' = [test EXCEPT !.phase = OnBodyError(test.phase), !.outcome = "StepFault"]
  /\ UNCHANGED <<platform, createType, currentDir, fileList, disk, host, pc, shot,
                 count, call, result, log, snap, lastWrites, nshots, dirShot,
                 savesSinceDir, writeCount, dropped, env, childEnv, caseRun>>

\* await closeVscode(), once the steps are through
TestCloseVscode ==
  /\ test.phase = "steps"
  /\ pc = "idle"
  /\ ~Failed
  /\ host' = CloseVscode(host)
  /\ test' = [test EXCEPT !.phase = "compare"]
  /\ UNCHANGED <<platform, createType, currentDir, fileList, disk, pc, shot, count,
                 call, result, log, snap, lastWrites, nshots, dirShot, savesSinceDir,
                 writeCount, dropped, env, childEnv, caseRun>>

\* await contrastResult(expectedResults, workspacePath): returns, or throws
\* when the files differ from the expected ones
TestContrast(same) ==
  /\ test.phase = "compare"
  /\ test' = [test EXCEPT !.phase = "finally",
                           !.outcome = IF same THEN "pass" ELSE "ContrastFailure"]
  /\ UNCHANGED <<platform, createType, currentDir, fileList, disk, host, pc, shot,
                 count, call, result, log, snap, lastWrites, nshots, dirShot,
                 savesSinceDir, writeCount, dropped, env, childEnv, caseRun>>

\* finally { screenShot.save() }; the test function is through
TestFinally ==
  /\ test.phase = "finally"
  /\ Save
  /\ test' = [test EXCEPT !.phase = "ended"]

\* the teardowns the launch fixture has registered: nothing is ever pushed
Teardowns == << >>

\* for (const teardown of teardowns) await teardown()
RECURSIVE RunTeardowns(_, _)
RunTeardowns(h, tds) ==
  IF tds = << >> THEN h
  ELSE RunTeardowns(IF Head(tds) = "close" THEN CloseVscode(h) ELSE h, Tail(tds))

\* the rest of the launch fixture, after the test function
FixtureTeardown ==
  /\ test.phase = "ended"
  /\ host' = RunTeardowns(host, Teardowns)
  /\ test' = [test EXCEPT !.phase = "torn"]
  /\ UNCHANGED <<platform, createType, currentDir, fileList, disk, pc, shot, count,
                 call, result, log, snap, lastWrites, nshots, dirShot, savesSinceDir,
                 writeCount, dropped, env, childEnv, caseRun>>

----------------------------------------------------------------------------
(* Specifications *)

\* the steps inside the asynchronous operations
RetrySteps ==
  \/ RetrySleep
  \/ RetryFnTrue
  \/ RetryFnFalse
  \/ RetryFnThrow
  \/ RetrySave
  \/ RetryClose
  \/ RetryThrow

LaunchSteps ==
  \/ LaunchCall
  \/ LaunchSpawn
  \/ LaunchSpawnFail
  \/ LaunchWindow
  \/ LaunchWindowFail

\* the bounds of the model: room for one more grab, for one more save
CanShoot == nshots < MaxShots
CanSave == savesSinceDir < MaxSaves

Next ==
  \/ \E ct \in CreateTypes : SetCreateType(ct)
  \/ \E dir \in CaseNames, t \in Times : SetDir(dir, t) /\ UNCHANGED test
  \/ CanSave /\ Save /\ UNCHANGED test
  \/ CanShoot /\ \E f \in FileNames : ShotCall(f)
  \/ ShotSettle
  \/ \E t \in Times : ShotPush(t)
  \/ CanShoot /\ CanSave
       /\ \E n \in Counts, msg \in Messages, gap \in Gaps : RetryCall(n, msg, gap)
  \/ RetrySteps
  \/ LaunchSteps

Spec == Init /\ [][Next]_vars

\* Next with every retry and launch input, and the Screenshot inputs cut to one
\* case name and one instant
NextRetry ==
  \/ SetDir("caseA", 0) /\ UNCHANGED test
  \/ CanSave /\ Save /\ UNCHANGED test
  \/ CanShoot /\ \E f \in FileNames : ShotCall(f)
  \/ ShotSettle
  \/ ShotPush(0)
  \/ CanShoot /\ CanSave
       /\ \E n \in Counts, msg \in Messages, gap \in Gaps : RetryCall(n, msg, gap)
  \/ RetrySteps
  \/ LaunchSteps

SpecRetry == Init /\ [][NextRetry]_vars

\* Next cut to the Screenshot class, with every Screenshot input
NextCapture ==
  \/ \E ct \in CreateTypes : SetCreateType(ct)
  \/ \E dir \in CaseNames, t \in Times : SetDir(dir, t) /\ UNCHANGED test
  \/ CanSave /\ Save /\ UNCHANGED test
  \/ CanShoot /\ \E f \in FileNames : ShotCall(f)
  \/ ShotSettle
  \/ \E t \in Times : ShotPush(t)

SpecCapture == Init /\ [][NextCapture]_vars

\* the instants a further capture can be dated with in NextOrder: later than
\* every buffered frame, or earlier than every buffered frame (the wall clock
\* was set back), so that all dates differ
OrderTimes ==
  IF fileList = << >> THEN {OrderShots * TimeStep}
  ELSE LET dates == {fileList[k].date : k \in DOMAIN fileList}
           hi == CHOOSE d \in dates : \A e \in dates : e <= d
           lo == CHOOSE d \in dates : \A e \in dates : d <= e
       IN  {hi + TimeStep, lo - TimeStep}

\* one case: up to OrderShots captures with distinct dates, then one save
NextOrder ==
  \/ nshots < OrderShots /\ savesSinceDir = 0 /\ ShotCall("shot.png")
  \/ ShotSettle
  \/ \E t \in OrderTimes : ShotPush(t)
  \/ savesSinceDir = 0 /\ Save /\ UNCHANGED test

SpecOrder == Init /\ [][NextOrder]_vars

\* NextCapture with a second task that calls setDir during a capture
NextInterleave ==
  \/ \E ct \in CreateTypes : SetCreateType(ct)
  \/ \E dir \in CaseNames, t \in Times : SetDir(dir, t) /\ UNCHANGED test
  \/ CanSave /\ Save /\ UNCHANGED test
  \/ CanShoot /\ \E f \in FileNames : ShotCall(f)
  \/ ShotSettle
  \/ \E t \in Times : ShotPush(t)
  \/ \E dir \in CaseNames, t \in Times : SetDirWhileCapturing(dir, t)

SpecInterleave == Init /\ [][NextInterleave]_vars

\* NextRetry with every instant for a capture and one message and gap for retry
NextFlush ==
  \/ SetDir("caseA", 0) /\ UNCHANGED test
  \/ CanSave /\ Save /\ UNCHANGED test
  \/ CanShoot /\ \E f \in FileNames : ShotCall(f)
  \/ ShotSettle
  \/ \E t \in Times : ShotPush(t)
  \/ CanShoot /\ CanSave /\ \E n \in Counts : RetryCall(n, "msgA", DefaultGap)
  \/ RetrySteps
  \/ LaunchSteps

SpecFlush == Init /\ [][NextFlush]_vars

\* test cases one after the other, each as createTypespec.test.ts runs it
NextTest ==
  \/ \E dir \in CaseNames, t \in Times : TestBegin(dir, t)
  \/ TestLaunch
  \/ LaunchSpawn
  \/ LaunchSpawnFail
  \/ LaunchWindow
  \/ LaunchWindowFail
  \/ TestLaunched
  \/ TestThrown
  \/ CanShoot /\ \E f \in FileNames : TestShot(f)
  \/ ShotSettle
  \/ \E t \in Times : ShotPush(t)
  \/ CanShoot /\ \E n \in Counts : TestRetry(n, "msgA", DefaultGap)
  \/ RetrySteps
  \/ TestStepThrows
  \/ TestCloseVscode
  \/ \E same \in BOOLEAN : TestContrast(same)
  \/ TestFinally
  \/ FixtureTeardown

SpecTest == Init /\ [][NextTest]_vars

\* the launch fixture alone, under every environment
InitLaunch == \E e \in Envs : InitState(e)

NextLaunch == LaunchSteps

SpecLaunch == InitLaunch /\ [][NextLaunch]_vars

----------------------------------------------------------------------------
(* Reading the log *)

\* operation op has completed and nothing was called since
Done(op) == pc = "idle" /\ call.op = op

Occurrences(e) == {i \in DOMAIN log : log[i].e = e}

\* k unsuccessful attempts: sleep(gap), then fn() = false, k times over
Attempts(k, gap) ==
  [i \in 1 .. 2 * k |-> IF i % 2 = 1 THEN Event("wait", gap) ELSE Event("fn_false", 0)]

\* the exhaustion path: settle and grab of error.png as image img, the flush of
\* m files, the teardown, the throw
ExhaustionTail(img, m) ==
  <<Event("settle", SettleSeconds), Event("capture", img), Event("flush", m),
    Event("close", 0), Event("raise", 0)>>

\* the last token of a path: the file name without its ordinal prefix
FileNameOf(path) == Last(path)

Images(frames) == [k \in DOMAIN frames |-> frames[k].buffer]

----------------------------------------------------------------------------
(* Claims about retry and launch, checked under SpecRetry *)

\* C1: a completed retry(n, fn, msg, gap) with n >= 1 whose predicate never
\* returned true (and never threw) has made exactly n attempts, each right
\* after one sleep(gap), then run the exhaustion path and thrown msg.
RetryAlwaysFalse ==
  (Done("retry") /\ call.n >= 1 /\ Occurrences("fn_true") = {}
     /\ Occurrences("fn_throw") = {})
  => /\ result = Error("PollExhausted", call.msg)
     /\ Len(log) = 2 * call.n + 5
     /\ SubSeq(log, 1, 2 * call.n) = Attempts(call.n, call.gap)
     /\ SubSeq(log, 2 * call.n + 1, Len(log)) = ExhaustionTail(nshots, Len(fileList))

RetryAlwaysFalseWitness ==
  /\ Done("retry")
  /\ call.n >= 2
  /\ call.gap = LongGap
  /\ result.kind = "PollExhausted"

\* C2: a retry that returned normally made k attempts for some 1 <= k <= n, the
\* first k-1 false and the k-th true, each right after one sleep(gap); it
\* captured, flushed and tore down nothing: buffer, disk and host are as they
\* were at the call.  A predicate that returned true ends retry normally.
RetrySucceedsAtK ==
  /\ (Done("retry") /\ result.kind = "ok")
     => /\ \E k \in 1 .. call.n :
             log = Attempts(k - 1, call.gap)
                     \o <<Event("wait", call.gap), Event("fn_true", 0)>>
        /\ fileList = snap.fileList
        /\ disk = snap.disk
        /\ host = snap.host
        /\ lastWrites = << >>
  /\ Occurrences("fn_true") # {} => Done("retry") /\ result.kind = "ok"

RetrySucceedsAtKWitness ==
  /\ Done("retry")
  /\ result.kind = "ok"
  /\ Len(log) = 4
  /\ fileList # << >>
  /\ disk # {}

\* C3: when the caller holds the exhaustion error, retry has, once each and in
\* this order, captured error.png, flushed, torn the editor down and thrown;
\* the error.png image is on disk and the editor is closed.
ExhaustionOrder ==
  result.kind = "PollExhausted"
  => /\ Len(log) >= 5
     /\ SubSeq(log, Len(log) - 4, Len(log)) = ExhaustionTail(nshots, Len(fileList))
     /\ \A e \in {"settle", "capture", "flush", "close", "raise"} :
          Cardinality(Occurrences(e)) = 1
     /\ \E f \in disk : f.buffer = nshots /\ FileNameOf(f.path) = ErrorFile
     /\ host = "closed"

ExhaustionOrderWitness ==
  /\ result.kind = "PollExhausted"
  /\ call.n = 1
  /\ Len(fileList) = 2
  /\ snap.disk = {}

\* C4 as stated: a retry with count <= 0 that ended in the exhaustion error has
\* slept its gap exactly once.
ZeroCountWaitsOnce ==
  (result.kind = "PollExhausted" /\ call.n <= 0)
  => Cardinality(Occurrences("wait")) = 1

\* C4 amended: a retry with count <= 0 never sleeps its gap and never calls the
\* predicate; it runs the exhaustion path at once, whose only delay is the
\* settle delay of the error.png capture.
ZeroCountNoWait ==
  (call.op = "retry" /\ call.n <= 0)
  => /\ Occurrences("wait") = {}
     /\ Occurrences("fn_true") \cup Occurrences("fn_false") \cup Occurrences("fn_throw") = {}
     /\ pc = "idle" => /\ result = Error("PollExhausted", call.msg)
                       /\ log = ExhaustionTail(nshots, Len(fileList))

ZeroCountNoWaitWitness ==
  /\ result.kind = "PollExhausted"
  /\ call.n < 0
  /\ call.gap = DefaultGap

\* C5: an error thrown by the predicate ends retry at once: it is the last
\* event, the caller gets that error, nothing was captured, flushed or torn
\* down.  A launch that fails gives the driver's error and no handle, and
\* captures nothing.
ErrorsPropagate ==
  /\ \A i \in Occurrences("fn_throw") :
       /\ i = Len(log)
       /\ pc = "idle"
       /\ result = Error("PredicateFault", PredicateError)
  /\ result.kind = "PredicateFault"
     => /\ Occurrences("fn_throw") # {}
        /\ \A e \in {"settle", "capture", "flush", "close", "raise"} : Occurrences(e) = {}
        /\ fileList = snap.fileList
        /\ disk = snap.disk
        /\ host = snap.host
        /\ lastWrites = << >>
  /\ result.kind = "LaunchFailure"
     => /\ result = Error("LaunchFailure", DriverError)
        /\ call.op = "launch"
        /\ \A e \in {"settle", "capture", "flush", "settings"} : Occurrences(e) = {}
        /\ fileList = snap.fileList
        /\ disk = snap.disk
  /\ (Done("launch") /\ result.value = "handle") => Occurrences("settings") # {}

ErrorsPropagateWitness ==
  /\ result.kind = "PredicateFault"
  /\ Len(log) = 4
  /\ call.n = 2
  /\ fileList # << >>
  /\ host = "live"

----------------------------------------------------------------------------
(* Claims about the Screenshot class, checked under SpecCapture *)

\* the ordinal prefix of a written path: the tokens of its file name (what
\* follows the last separator) in front of the first "_"
RECURSIVE UpTo(_, _)
UpTo(s, c) == IF s = << >> \/ Head(s) = c THEN << >> ELSE <<Head(s)>> \o UpTo(Tail(s), c)

BaseName(path) ==
  LET cut == IF LastIndexOf(path, "/") > LastIndexOf(path, "\\")
             THEN LastIndexOf(path, "/") ELSE LastIndexOf(path, "\\")
  IN  SubSeq(path, cut + 1, Len(path))

PrefixOf(path) == UpTo(BaseName(path), "_")

DigitValue(c) == CHOOSE d \in 0 .. 9 : ToString(d) = c

\* s sorts before t as a string of digits
LexLess(s, t) ==
  \E i \in 1 .. Len(t) :
    /\ \A j \in 1 .. (i - 1) : j <= Len(s) /\ s[j] = t[j]
    /\ i > Len(s) \/ DigitValue(s[i]) < DigitValue(t[i])

\* the capture date of the buffered frame holding image img
DateOf(img) == fileList[CHOOSE k \in DOMAIN fileList : fileList[k].buffer = img].date

\* C6 as stated: after a save of frames with distinct dates, one written file's
\* ordinal prefix sorts (as a string) before another's exactly when its frame
\* was captured earlier.
PrefixOrderIsCaptureOrder ==
  Done("save")
  => \A a, b \in DOMAIN lastWrites :
       DateOf(lastWrites[a].buffer) < DateOf(lastWrites[b].buffer)
       <=> LexLess(PrefixOf(lastWrites[a].path), PrefixOf(lastWrites[b].path))

\* C7: disk changes only in a step of save(); the step that pushes a frame
\* appends exactly that one frame and changes nothing else of the Screenshot
\* object, the disk or the editor; the other steps of screenShot change neither
\* buffer nor disk.
CaptureNeverWrites ==
  [][/\ disk' # disk => (pc = "idle" /\ call'.op = "save") \/ pc = "retry_save"
     /\ (shot.stage = "grab" /\ shot'.stage = "none")
        => /\ disk' = disk
           /\ fileList' = Append(fileList, Last(fileList'))
           /\ Last(fileList').buffer = nshots'
           /\ FileNameOf(Last(fileList').fullPath) = shot.fileName
           /\ UNCHANGED <<createType, currentDir, host, lastWrites>>
     /\ (shot'.stage # "none" \/ (shot.stage = "none" /\ call'.op = "screenShot"))
        => UNCHANGED <<fileList, disk>>
    ]_vars

CaptureNeverWritesWitness ==
  /\ Done("screenShot")
  /\ Len(fileList) = 2
  /\ Cardinality(disk) = 1
  /\ currentDir # << >>

\* C8: setDir leaves the buffer empty; a save with no capture since the last
\* setDir writes no file and leaves the disk as it was, however often it is
\* repeated; no save writes a frame that a setDir has discarded.
SetDirEmptiesBuffer ==
  /\ Done("setDir") => fileList = << >>
  /\ Done("save")
     => /\ nshots = dirShot => fileList = << >> /\ lastWrites = << >> /\ disk = snap.disk
        /\ \A k \in DOMAIN lastWrites :
             /\ lastWrites[k].buffer > dirShot
             /\ \A j \in DOMAIN dropped : dropped[j].buffer # lastWrites[k].buffer

SetDirEmptiesBufferWitness ==
  /\ Done("save")
  /\ savesSinceDir = 2
  /\ Len(dropped) = 2
  /\ \A j \in DOMAIN dropped : \E i \in DOMAIN dropped[j].fullPath :
       dropped[j].fullPath[i] = "caseA"
  /\ currentDir[1] = "caseB"
  /\ disk = {}

\* C9: save() keeps every frame in the buffer, only setDir shortens the
\* buffer, and a save() right after a save() writes the same files with the
\* same contents in the same order and leaves buffer and disk as they were.
SecondSaveRepeatsFirst ==
  [][/\ (pc = "idle" /\ call'.op = "save")
        => /\ Len(fileList') = Len(fileList)
           /\ {fileList'[k] : k \in DOMAIN fileList'} = {fileList[k] : k \in DOMAIN fileList}
     /\ (Done("save") /\ call'.op = "save")
        => /\ lastWrites' = lastWrites
           /\ disk' = disk
           /\ fileList' = fileList
     /\ Len(fileList') < Len(fileList) => call'.op = "setDir"
    ]_vars

SecondSaveRepeatsFirstWitness ==
  /\ Done("save")
  /\ savesSinceDir = 2
  /\ Len(lastWrites) = 2
  /\ fileList[1].date = fileList[2].date
  /\ snap.disk = disk

----------------------------------------------------------------------------
(* C10, checked under SpecRetry: retry's flush and the caller's save() *)

\* a flush has just completed: the caller's save(), or the one inside retry
Flushed ==
  \/ Done("save")
  \/ pc \in {"retry_close", "retry_throw"}
  \/ Done("retry") /\ result.kind = "PollExhausted"

\* C10 as stated: no image is written by more than one flush, and after a
\* flush the frames it wrote are no longer in the buffer.
FrameConsumedOnce ==
  /\ \A img \in DOMAIN writeCount : writeCount[img] <= 1
  /\ Flushed => \A k \in DOMAIN lastWrites, j \in DOMAIN fileList :
                  fileList[j].buffer # lastWrites[k].buffer

\* C10 amended: a flush writes every buffered frame and keeps all of them in
\* the buffer, so every flush until the next setDir writes them again: a
\* buffered frame has been written by each flush since its capture, the
\* number of times a frame was written never exceeds the number of flushes
\* since setDir and an earlier frame has been written at least as often as a
\* later one.
FrameKeptAndRewritten ==
  /\ Flushed => /\ Images(lastWrites) = Images(fileList)
                /\ \A j \in DOMAIN fileList : writeCount[fileList[j].buffer] >= 1
  /\ \A j \in DOMAIN fileList : writeCount[fileList[j].buffer] <= savesSinceDir
  /\ \A i, j \in DOMAIN fileList :
       fileList[i].buffer < fileList[j].buffer
       => writeCount[fileList[i].buffer] >= writeCount[fileList[j].buffer]

FrameKeptAndRewrittenWitness ==
  /\ Done("save")
  /\ \E j \in DOMAIN fileList :
       /\ FileNameOf(fileList[j].fullPath) = ErrorFile
       /\ writeCount[fileList[j].buffer] = 2
  /\ host = "closed"


----------------------------------------------------------------------------
(* Claims about the launch fixture, checked under SpecLaunch *)

\* the launch in progress, or just completed, has started the editor
HostStarted == call.op = "launch" /\ Occurrences("spawn") # {}

\* C11 as stated: whenever a launch has started the editor, it had written
\* settings.json before.
SettingsBeforeHostStart ==
  HostStarted
  => \E i \in Occurrences("settings"), j \in Occurrences("spawn") : i < j

\* C16 as stated: every inherited variable other than PATH has its inherited
\* value in the editor's environment, and PATH is the companion directory,
\* the delimiter and the inherited PATH.
EnvOnlyPathChanged ==
  HostStarted
  => /\ \A n \in DOMAIN env \ {"PATH"} : n \in DOMAIN childEnv /\ childEnv[n] = env[n]
     /\ "PATH" \in DOMAIN env
        => childEnv["PATH"] = <<CodePath, Delimiter(platform)>> \o env["PATH"]

\* C16 amended: the editor's environment has every inherited variable; each
\* has its inherited value except PATH and the two log variables, which launch
\* sets whether or not they were inherited: PATH to the companion directory,
\* the delimiter and the inherited PATH (the text "undefined" when there is
\* none), the log file to the fixture's log path, the log level to "verbose".
EnvAugmented ==
  HostStarted
  => /\ DOMAIN childEnv = DOMAIN env \cup DOMAIN LogVars \cup {"PATH"}
     /\ \A n \in DOMAIN env \ (DOMAIN LogVars \cup {"PATH"}) : childEnv[n] = env[n]
     /\ childEnv["PATH"] = <<CodePath, Delimiter(platform)>>
                             \o (IF "PATH" \in DOMAIN env THEN env["PATH"] ELSE <<"undefined">>)
     /\ childEnv["VITEST_VSCODE_E2E_LOG_FILE"] = <<LogPath>>
     /\ childEnv["VITEST_VSCODE_LOG"] = <<"verbose">>

EnvAugmentedWitness ==
  /\ HostStarted
  /\ Done("launch")
  /\ DOMAIN env = EnvNames
  /\ env["VITEST_VSCODE_LOG"] = <<"info">>
  /\ Len(env["PATH"]) = 3

----------------------------------------------------------------------------
(* C13, checked under SpecCapture *)

\* C13 as stated: a setDir whose case name or instant differs from those of
\* the setDir before it gives a different case directory.
CaseDirNeverReused ==
  [][(caseRun # NoRun /\ caseRun' # caseRun) => currentDir' # currentDir]_vars

----------------------------------------------------------------------------
(* C15, checked under SpecOrder: where save puts the ordinal *)

\* the path of the spec's example on platform p: <root>/cat/case/shot.png
ExamplePath(p) ==
  IF p = "win32" THEN <<"C:", "\\", "root", "\\", "cat", "\\", "case", "\\", "shot.png">>
  ELSE <<"/", "root", "/", "cat", "/", "case", "/", "shot.png">>

\* path with the decimal ordinal i and "_" put in front of its last token
WithOrdinal(path, i) == Front(path) \o Digits(i) \o <<"_">> \o <<Last(path)>>

\* C15: save writes each frame to its own path with only the file name
\* changed, to <ordinal>_<name>, in the same directory, on both platforms; so
\* does the prefix insertion on the example paths for every ordinal, and a
\* POSIX path without "/" becomes <ordinal>_<name>.
PrefixKeepsDirectory ==
  /\ Done("save")
     => \A k \in DOMAIN lastWrites :
          /\ lastWrites[k].buffer = fileList[k].buffer
          /\ lastWrites[k].path = WithOrdinal(fileList[k].fullPath, k - 1)
          /\ Len(fileList[k].fullPath) > 1
  /\ \A i \in 0 .. OrderShots :
       /\ WritePath(platform, ExamplePath(platform), i) = WithOrdinal(ExamplePath(platform), i)
       /\ PrefixLast("linux", <<"shot.png">>, i) = Digits(i) \o <<"_", "shot.png">>
  /\ WritePath(platform, ExamplePath(platform), 3)
       = Front(ExamplePath(platform)) \o <<"3", "_", "shot.png">>

PrefixKeepsDirectoryWitness ==
  /\ Done("save")
  /\ platform = "linux"
  /\ Len(lastWrites) = 4
  /\ lastWrites[4].buffer = 1

----------------------------------------------------------------------------
(* C17, checked under SpecCapture: what one save writes *)

\* C17: a save of a buffer of m frames writes m different files, one per
\* frame, the k-th written (k = 1..m) with ordinal k-1 and present on disk
\* afterwards; the frames are written by non-decreasing date, frames of equal
\* date in the order of their capture.
FlushWritesOrdinals ==
  Done("save")
  => /\ Len(lastWrites) = Len(snap.fileList)
     /\ {lastWrites[k].buffer : k \in DOMAIN lastWrites}
          = {snap.fileList[k].buffer : k \in DOMAIN snap.fileList}
     /\ Cardinality({lastWrites[k].path : k \in DOMAIN lastWrites}) = Len(snap.fileList)
     /\ \A k \in DOMAIN lastWrites :
          /\ PrefixOf(lastWrites[k].path) = Digits(k - 1)
          /\ lastWrites[k] \in disk
     /\ \A i, j \in DOMAIN lastWrites :
          i < j => \/ DateOf(lastWrites[i].buffer) < DateOf(lastWrites[j].buffer)
                   \/ /\ DateOf(lastWrites[i].buffer) = DateOf(lastWrites[j].buffer)
                      /\ lastWrites[i].buffer < lastWrites[j].buffer

FlushWritesOrdinalsWitness ==
  /\ Done("save")
  /\ Len(lastWrites) = 2
  /\ lastWrites[1].buffer = 2
  /\ savesSinceDir = 1

----------------------------------------------------------------------------
(* C20, checked under SpecInterleave *)

\* C20: every buffered frame's path is the one built from the current
\* currentDir (and the frame's own file name), whatever setDir calls came
\* while its capture was suspended.
BufferUnderCurrentDir ==
  \A k \in DOMAIN fileList :
    fileList[k].fullPath
      = FullPath(platform, createType, currentDir, FileNameOf(fileList[k].fullPath))

\* a capture has completed during which a setDir discarded the frame that was
\* buffered when it was called
BufferUnderCurrentDirWitness ==
  /\ Done("screenShot")
  /\ Len(snap.fileList) = 1
  /\ Len(fileList) = 1
  /\ fileList[1].buffer = 2
  /\ currentDir[1] = "caseB"

----------------------------------------------------------------------------
(* Claims about a whole test case, checked under SpecTest (C19: SpecFlush) *)

\* image img is in some file on disk
OnDisk(img) == \E f \in disk : f.buffer = img

\* the clock did not go back between the captures of the buffered frames
ClockMonotone ==
  \A i, j \in DOMAIN fileList :
    fileList[i].buffer < fileList[j].buffer => fileList[i].date <= fileList[j].date

\* C12 as stated: once the fixture's teardown has run for a test in which
\* launch returned a handle, the editor is not live.
TeardownClosesHost ==
  (test.phase = "torn" /\ test.handle) => host # "live"

\* C14: a test that is through has run save() as its last operation, whatever
\* its outcome, and every frame captured since its setDir is in the buffer and
\* on disk with its image.
RunEndsWithFlush ==
  test.phase \in {"ended", "torn"}
  => /\ call.op = "save"
     /\ savesSinceDir >= 1
     /\ test.outcome \in {"pass", "PollExhausted", "PredicateFault", "LaunchFailure",
                           "StepFault", "ContrastFailure"}
     /\ {fileList[k].buffer : k \in DOMAIN fileList} = (dirShot + 1) .. nshots
     /\ \A k \in DOMAIN fileList :
          \E f \in disk : /\ f.buffer = fileList[k].buffer
                           /\ FileNameOf(f.path) = FileNameOf(fileList[k].fullPath)

RunEndsWithFlushWitness ==
  /\ test.phase = "ended"
  /\ test.outcome = "StepFault"
  /\ Len(fileList) = 2
  /\ snap.disk = {}

\* the caller holds the exhaustion error of the retry that has just ended
Exhausted == Done("retry") /\ result.kind = "PollExhausted"

\* every frame captured since the last setDir is on disk under the current
\* case directory, error.png (the newest image) among them
AllFramesOnDisk ==
  /\ {fileList[k].buffer : k \in DOMAIN fileList} = (dirShot + 1) .. nshots
  /\ \A k \in DOMAIN fileList :
       [path |-> WithOrdinal(fileList[k].fullPath, k - 1), buffer |-> fileList[k].buffer]
         \in disk
  /\ \E k \in DOMAIN fileList :
       fileList[k].buffer = nshots /\ FileNameOf(fileList[k].fullPath) = ErrorFile

\* error.png was written under the highest ordinal of the flush
ErrorFileLast ==
  /\ lastWrites # << >>
  /\ Last(lastWrites).buffer = nshots
  /\ Last(lastWrites).path
       = WithOrdinal(FullPath(platform, createType, currentDir, ErrorFile), nshots - dirShot - 1)

\* C18 as stated: after a poll exhaustion every frame captured since the last
\* setDir and error.png are on disk, error.png under the highest ordinal.
ExhaustionFilesErrorLast ==
  Exhausted => AllFramesOnDisk /\ ErrorFileLast

\* C18 amended: after a poll exhaustion every frame captured since the last
\* setDir and error.png are on disk; error.png has the highest ordinal when
\* the clock did not go back between the captures.
ExhaustionFilesOnDisk ==
  Exhausted => /\ AllFramesOnDisk
               /\ ClockMonotone => ErrorFileLast

ExhaustionFilesOnDiskWitness ==
  /\ Exhausted
  /\ Len(fileList) = 2
  /\ ClockMonotone
  /\ fileList[1].date < fileList[2].date
  /\ test.phase = "steps"

\* a step in which save() runs: the caller's, or the one inside retry
FlushStep == savesSinceDir' = savesSinceDir + 1

====
